---------------------------- MODULE Spec2Model ----------------------------
(***************************************************************************)
(* Model of circuitpython_tzdb.                                            *)
(*                                                                         *)
(*   Spec     the runtime resolver, tzdb/_timezone.py: class timezone with *)
(*            its lazily loaded class attribute _TZ_DB, the gc switch of   *)
(*            _load_db, and the methods utcoffset, fromutc and tzname.     *)
(*   SpecGen  the offline extractor, utils/generate_tz_db.py: the pool of  *)
(*            serialize_timezone workers over a shared output directory.   *)
(*                                                                         *)
(* A datetime is [year, hoy], hoy the hour of the year counted from        *)
(* January 1st 00:00 in a 365-day year; the finest step of the model is    *)
(* one hour.  A dict is the sequence of its items in insertion order.      *)
(***************************************************************************)
EXTENDS Integers, Sequences, FiniteSets, TLC

VARIABLES
    dbFile,           \* content of _tzdb.msgpack: zone name -> dict
    TZ_DB,            \* timezone._TZ_DB: [isNone, dict]
    gcEnabled,        \* the interpreter's gc switch
    pc,               \* position of the running timezone.__init__
    cur,              \* locals of the running __init__ / _load_db
    handles,          \* the timezone objects built so far, by identity
    loadCalls,        \* history: number of calls of _load_db
    last,             \* the last call completed and its outcome
    tznames,          \* the zones submitted: tz_name.split("/") of each
    year,             \* utc_now.year of the extractor run
    oracle,           \* per worker: the ZoneInfo offset function
    wpc,              \* per worker: position in serialize_timezone
    werr,             \* per worker: the exception that ended it
    utc_offset_dict,  \* per worker: the local utc_offset_dict
    fsDirs,           \* directories below out_pkg (paths as sequences)
    fsFiles           \* files below out_pkg: path -> content

resolverVars == <<dbFile, TZ_DB, gcEnabled, pc, cur, handles, loadCalls, last>>
genVars == <<tznames, year, oracle, wpc, werr, utc_offset_dict, fsDirs, fsFiles>>
vars == <<dbFile, TZ_DB, gcEnabled, pc, cur, handles, loadCalls, last,
          tznames, year, oracle, wpc, werr, utc_offset_dict, fsDirs, fsFiles>>

---------------------------------------------------------------------------
(* Bounds of the model *)

MaxLen == 2          \* items in the generated zone table of the database
MaxHandles == 2      \* timezone objects constructed
MaxLoads == 2        \* calls of _load_db
MaxOracleSteps == 1  \* offset changes of a generated oracle

---------------------------------------------------------------------------
(* The datetime collaborator *)

HoursPerYear == 365 * 24

CumDays == <<0, 31, 59, 90, 120, 151, 181, 212, 243, 273, 304, 334>>
MonthLen == <<31, 28, 31, 30, 31, 30, 31, 31, 30, 31, 30, 31>>

\* hour of the year of month/day hour:00
Hoy(month, day, hour) == (CumDays[month] + day - 1) * 24 + hour

\* datetime(year, month, day, hour) and datetime.fromisoformat of that text
DT(y, month, day, hour) == [year |-> y, hoy |-> Hoy(month, day, hour)]

\* datetime.replace(year=y)
Replace(d, y) == [d EXCEPT !.year = y]

\* datetime comparison
LT(a, b) == a.year < b.year \/ (a.year = b.year /\ a.hoy < b.hoy)
GE(a, b) == ~LT(a, b)

\* datetime + timedelta(hours=h)
Plus(d, h) ==
    LET t == d.hoy + h
    IN  IF t < 0 THEN [year |-> d.year - 1, hoy |-> t + HoursPerYear]
        ELSE IF t >= HoursPerYear THEN [year |-> d.year + 1, hoy |-> t - HoursPerYear]
        ELSE [year |-> d.year, hoy |-> t]

NoDT == [year |-> 0, hoy |-> 0]

Item(k, v) == [ts |-> k, off |-> v]

---------------------------------------------------------------------------
(* The database file *)

ChicagoTable ==
    << Item(DT(2022, 1, 1, 0), -6),
       Item(DT(2022, 3, 13, 3), -5),
       Item(DT(2022, 11, 6, 2), -6) >>

\* items the second zone's dict is drawn from: none at January 1st, one of
\* the year before the others
ItemSet == { Item(DT(2022, 3, 13, 3), 1), Item(DT(2022, 11, 6, 2), 2),
             Item(DT(2021, 12, 27, 0), 3) }

RECURSIVE Dicts(_)
Dicts(n) ==
    IF n = 0 THEN { <<>> }
    ELSE LET shorter == Dicts(n - 1)
         IN  shorter \cup
             { Append(d, e) :
                 d \in { s \in shorter : Len(s) = n - 1 }, e \in ItemSet }

\* a dict holds a key once
GenTables ==
    { d \in Dicts(MaxLen) :
        \A i, j \in 1..Len(d) : i # j => d[i].ts # d[j].ts }

DbNames == { "America/Chicago", "Europe/Dublin" }
Names == DbNames \cup { "Mars/Phobos" }

DbFiles ==
    { [n \in DbNames |->
         IF n = "America/Chicago" THEN ChicagoTable ELSE t] : t \in GenTables }

EmptyDB == [n \in {} |-> <<>>]
NoneDB == [isNone |-> TRUE, dict |-> EmptyDB]

\* query instants and wall-clock readings
DtSet == { DT(2022, 1, 10, 0), DT(2022, 7, 4, 0), DT(2022, 12, 25, 0),
           DT(2022, 3, 13, 3), DT(2023, 1, 1, 0) }
NowSet == { DT(2022, 1, 10, 0), DT(2022, 7, 4, 0) }

---------------------------------------------------------------------------
(* timezone.__init__: the sort and the lookup *)

\* sorted(items, key=fromisoformat(key)): stable insertion sort
RECURSIVE InsertByTs(_, _)
InsertByTs(s, e) ==
    IF s = <<>> THEN <<e>>
    ELSE IF LT(e.ts, s[Len(s)].ts)
         THEN Append(InsertByTs(SubSeq(s, 1, Len(s) - 1), e), s[Len(s)])
         ELSE Append(s, e)

RECURSIVE sorted_kv_pairs_from(_, _)
sorted_kv_pairs_from(items, n) ==
    IF n = 0 THEN <<>>
    ELSE InsertByTs(sorted_kv_pairs_from(items, n - 1), items[n])

sorted_kv_pairs(items) == sorted_kv_pairs_from(items, Len(items))

timezone_lookup_default(db, tz_name) ==
    IF tz_name \in DOMAIN db
    THEN [found |-> TRUE, tz_data |-> sorted_kv_pairs(db[tz_name])]
    ELSE [found |-> TRUE, tz_data |-> <<>>]

\* lines 84-91: _TZ_DB[tz_name] or KeyError
timezone_lookup(db, tz_name) ==
    IF tz_name \in DOMAIN db
    THEN [found |-> TRUE, tz_data |-> sorted_kv_pairs(db[tz_name])]
    ELSE [found |-> FALSE, tz_data |-> <<>>]

NeedsLoadAlways(db) == TRUE

\* line 80: timezone._TZ_DB is None
NeedsLoad(db) == db.isNone

GcAfterLoadOnSuccess(pending) == pending = "ok"

\* lines 141-142: finally: gc_enable()
GcAfterLoad(pending) == TRUE

---------------------------------------------------------------------------
(* timezone.utcoffset, fromutc, tzname *)

RECURSIVE utcoffset_scan(_, _, _, _)
utcoffset_scan(tz_data, dt, i, offset) ==
    IF i > Len(tz_data) THEN offset
    ELSE LET iso_dt == Replace(tz_data[i].ts, dt.year)
         IN  utcoffset_scan(tz_data, dt, i + 1,
                            IF GE(dt, iso_dt) THEN tz_data[i].off ELSE offset)

RECURSIVE utcoffset_first_scan(_, _, _)
utcoffset_first_scan(tz_data, dt, i) ==
    IF i > Len(tz_data) THEN 0
    ELSE IF GE(dt, Replace(tz_data[i].ts, dt.year)) THEN tz_data[i].off
         ELSE utcoffset_first_scan(tz_data, dt, i + 1)

\* a scan that stops at the first match
utcoffset_first(tz_data, dt) == utcoffset_first_scan(tz_data, dt, 1)

\* a scan that starts from the first transition's offset
utcoffset_carry(tz_data, dt) ==
    utcoffset_scan(tz_data, dt, 1, IF tz_data = <<>> THEN 0 ELSE tz_data[1].off)

\* lines 105-110, in hours
utcoffset(tz_data, dt) == utcoffset_scan(tz_data, dt, 1, 0)

fromutc_at_dt(tz_data, dt, now) == Plus(dt, utcoffset(tz_data, dt))

\* lines 117-120
fromutc(tz_data, dt, now) == Plus(dt, utcoffset(tz_data, now))

\* dt.tzinfo: 0 is None, -1 an instance of another tzinfo class,
\* i >= 1 the timezone object handles[i]
TzInfos(hs) == { -1, 0 } \cup (1..Len(hs))

tzname_same(hs, self, tzi) ==
    IF tzi # self
    THEN [status |-> "ValueError", name |-> ""]
    ELSE [status |-> "ok", name |-> hs[tzi].name]

\* lines 126-130
tzname(hs, self, tzi) ==
    IF ~(tzi >= 1)
    THEN [status |-> "ValueError", name |-> ""]
    ELSE [status |-> "ok", name |-> hs[tzi].name]

---------------------------------------------------------------------------
(* Resolver actions *)

Result(op, status, h, name, dt, now, off, out, tzi) ==
    [op |-> op, status |-> status, h |-> h, name |-> name, dt |-> dt,
     now |-> now, off |-> off, out |-> out, tzi |-> tzi]

NoCur == [tz_name |-> "", pending |-> "", data |-> EmptyDB]

\* lines 84-91 on database db: the new handle list and the outcome
FinishInit(db, tz_name) ==
    LET r == timezone_lookup(db, tz_name)
    IN  /\ handles' = IF r.found
                      THEN Append(handles, [name |-> tz_name, tz_data |-> r.tz_data])
                      ELSE handles
        /\ last' = Result("init", IF r.found THEN "ok" ELSE "KeyError",
                          IF r.found THEN Len(handles) + 1 ELSE 0,
                          tz_name, NoDT, NoDT, 0, NoDT, 0)

\* timezone(tz_name), up to the call of _load_db or to its end
Construct(tz_name) ==
    /\ pc = "idle"
    /\ Len(handles) < MaxHandles
    /\ IF NeedsLoad(TZ_DB)
       THEN /\ loadCalls < MaxLoads
            /\ loadCalls' = loadCalls + 1
            /\ gcEnabled' = FALSE                      \* line 137
            /\ pc' = "open"
            /\ cur' = [NoCur EXCEPT !.tz_name = tz_name]
            /\ UNCHANGED <<handles, last>>
       ELSE /\ FinishInit(TZ_DB.dict, tz_name)
            /\ UNCHANGED <<loadCalls, gcEnabled, pc, cur>>
    /\ UNCHANGED <<dbFile, TZ_DB>>
    /\ UNCHANGED genVars

\* line 139: open() raises
LoadOpenFails ==
    /\ pc = "open"
    /\ pc' = "finally"
    /\ cur' = [cur EXCEPT !.pending = "OSError"]
    /\ UNCHANGED <<dbFile, TZ_DB, gcEnabled, handles, loadCalls, last>>
    /\ UNCHANGED genVars

\* line 140: msgpack_unpack raises
LoadUnpackFails ==
    /\ pc = "open"
    /\ pc' = "finally"
    /\ cur' = [cur EXCEPT !.pending = "ValueError"]
    /\ UNCHANGED <<dbFile, TZ_DB, gcEnabled, handles, loadCalls, last>>
    /\ UNCHANGED genVars

\* lines 139-140 succeed
LoadUnpack ==
    /\ pc = "open"
    /\ pc' = "finally"
    /\ cur' = [cur EXCEPT !.pending = "ok", !.data = dbFile]
    /\ UNCHANGED <<dbFile, TZ_DB, gcEnabled, handles, loadCalls, last>>
    /\ UNCHANGED genVars

\* lines 141-142
LoadFinally ==
    /\ pc = "finally"
    /\ gcEnabled' = (gcEnabled \/ GcAfterLoad(cur.pending))
    /\ pc' = "after_load"
    /\ UNCHANGED <<dbFile, TZ_DB, cur, handles, loadCalls, last>>
    /\ UNCHANGED genVars

\* line 144 and line 82, then lines 84-91; or the error leaves __init__
InitResume ==
    /\ pc = "after_load"
    /\ pc' = "idle"
    /\ cur' = NoCur
    /\ IF cur.pending = "ok"
       THEN /\ TZ_DB' = [isNone |-> FALSE, dict |-> cur.data]
            /\ FinishInit(cur.data, cur.tz_name)
       ELSE /\ last' = Result("init", cur.pending, 0, cur.tz_name,
                              NoDT, NoDT, 0, NoDT, 0)
            /\ UNCHANGED <<TZ_DB, handles>>
    /\ UNCHANGED <<dbFile, gcEnabled, loadCalls>>
    /\ UNCHANGED genVars

UtcOffset(h, dt) ==
    /\ pc = "idle"
    /\ last' = Result("utcoffset", "ok", h, handles[h].name, dt, NoDT,
                      utcoffset(handles[h].tz_data, dt), NoDT, 0)
    /\ UNCHANGED <<dbFile, TZ_DB, gcEnabled, pc, cur, handles, loadCalls>>
    /\ UNCHANGED genVars

FromUtc(h, dt, now) ==
    /\ pc = "idle"
    /\ last' = Result("fromutc", "ok", h, handles[h].name, dt, now, 0,
                      fromutc(handles[h].tz_data, dt, now), 0)
    /\ UNCHANGED <<dbFile, TZ_DB, gcEnabled, pc, cur, handles, loadCalls>>
    /\ UNCHANGED genVars

TzName(h, tzi) ==
    /\ pc = "idle"
    /\ LET r == tzname(handles, h, tzi)
       IN  last' = Result("tzname", r.status, h, r.name, NoDT, NoDT, 0, NoDT, tzi)
    /\ UNCHANGED <<dbFile, TZ_DB, gcEnabled, pc, cur, handles, loadCalls>>
    /\ UNCHANGED genVars

GenIdle ==
    /\ tznames = <<>>
    /\ year = 0
    /\ oracle = <<>>
    /\ wpc = <<>>
    /\ werr = <<>>
    /\ utc_offset_dict = <<>>
    /\ fsDirs = {}
    /\ fsFiles = <<>>

Init ==
    /\ dbFile \in DbFiles
    /\ TZ_DB = NoneDB
    /\ gcEnabled = TRUE
    /\ pc = "idle"
    /\ cur = NoCur
    /\ handles = <<>>
    /\ loadCalls = 0
    /\ last = Result("none", "ok", 0, "", NoDT, NoDT, 0, NoDT, 0)
    /\ GenIdle

Next ==
    \/ \E n \in Names : Construct(n)
    \/ LoadOpenFails
    \/ LoadUnpackFails
    \/ LoadUnpack
    \/ LoadFinally
    \/ InitResume
    \/ \E h \in 1..Len(handles), dt \in DtSet : UtcOffset(h, dt)
    \/ \E h \in 1..Len(handles), dt \in DtSet, now \in NowSet : FromUtc(h, dt, now)
    \/ \E h \in 1..Len(handles), tzi \in TzInfos(handles) : TzName(h, tzi)

Spec == Init /\ [][Next]_vars

---------------------------------------------------------------------------
(* The extractor: calendar, oracle and the scan of serialize_timezone *)

\* date(y, 1, 1).weekday(), Monday = 0
Jan1Weekday(y) ==
    (y + ((y - 1) \div 4) - ((y - 1) \div 100) + ((y - 1) \div 400) + 6) % 7

\* Calendar().itermonthdates(y, month) as days counted from January 1st of
\* y: the month's days, padded to whole weeks Monday..Sunday
itermonthdates(y, month) ==
    LET first == CumDays[month]
        final == first + MonthLen[month] - 1
    IN  [lo |-> first - ((Jan1Weekday(y) + first) % 7),
         hi |-> final + 6 - ((Jan1Weekday(y) + final) % 7)]

\* The hours of a day the scan samples.  The code samples every minute of
\* every hour; an oracle of the model changes, or is undefined, only at
\* these hours, so the samples left out repeat the offset sampled before.
ScanHours == <<0, 2, 3>>

\* instant t (hours from January 1st 00:00 of y) as a naive datetime
Naive(y, t) == Plus([year |-> y, hoy |-> 0], t)

\* ZoneInfo's utcoffset() at instant t, in minutes
OracleOffset(orc, t) ==
    IF t \in orc.noneAt THEN [isNone |-> TRUE, mins |-> 0]
    ELSE LET past == { i \in 1..Len(orc.steps) : orc.steps[i].at <= t }
         IN  [isNone |-> FALSE,
              mins |-> IF past = {} THEN orc.init
                       ELSE orc.steps[CHOOSE i \in past :
                                          \A j \in past : j <= i].off]

\* total_seconds() // 3600
Hours(mins) == mins \div 60

Abs(x) == IF x < 0 THEN -x ELSE x

\* utc_offset_dict[iso_ts] = v
DictSet(d, k, v) ==
    IF \E i \in 1..Len(d) : d[i].ts = k
    THEN [i \in 1..Len(d) |-> IF d[i].ts = k THEN Item(k, v) ELSE d[i]]
    ELSE Append(d, Item(k, v))

\* lines 90-97
scan_begin(y, orc) ==
    LET o == OracleOffset(orc, 0)
    IN  IF o.isNone
        THEN [utc_offset |-> 0, dict |-> <<>>, err |-> "ValueError"]
        ELSE [utc_offset |-> Hours(o.mins),
              dict |-> <<Item(Naive(y, 0), Hours(o.mins))>>,
              err |-> ""]

\* an undefined offset is passed over
scan_instant_skip(st, y, orc, t) ==
    LET o == OracleOffset(orc, t)
    IN  IF st.err # "" \/ o.isNone THEN st
        ELSE IF Abs(Hours(o.mins) - st.utc_offset) * 10 > 1
             THEN [st EXCEPT !.dict = DictSet(st.dict, Naive(y, t), Hours(o.mins)),
                             !.utc_offset = Hours(o.mins)]
             ELSE st

\* lines 100-108, the body of the loop
scan_instant(st, y, orc, t) ==
    LET o == OracleOffset(orc, t)
    IN  IF st.err # "" THEN st
        ELSE IF o.isNone THEN [st EXCEPT !.err = "ValueError"]
        ELSE IF Abs(Hours(o.mins) - st.utc_offset) * 10 > 1
             THEN [st EXCEPT !.dict = DictSet(st.dict, Naive(y, t), Hours(o.mins)),
                             !.utc_offset = Hours(o.mins)]
             ELSE st

\* lines 71-73 for one date; an exception raised in the loop body ends
\* the loops
RECURSIVE scan_day(_, _, _, _, _)
scan_day(st, y, orc, day, i) ==
    IF i > Len(ScanHours) \/ st.err # "" THEN st
    ELSE scan_day(scan_instant(st, y, orc, day * 24 + ScanHours[i]),
                  y, orc, day, i + 1)

\* line 69 for one month
RECURSIVE scan_dates(_, _, _, _, _)
scan_dates(st, y, orc, day, hi) ==
    IF day > hi \/ st.err # "" THEN st
    ELSE scan_dates(scan_day(st, y, orc, day, 1), y, orc, day + 1, hi)

\* line 68
RECURSIVE iteryear(_, _, _, _)
iteryear(st, y, orc, month) ==
    IF month > 12 \/ st.err # "" THEN st
    ELSE LET b == itermonthdates(y, month)
         IN  iteryear(scan_dates(st, y, orc, b.lo, b.hi), y, orc, month + 1)

\* lines 86-108
serialize_scan(y, orc) == iteryear(scan_begin(y, orc), y, orc, 1)

---------------------------------------------------------------------------
(* The extractor: zones, oracles, output directory *)

\* lines 133-138: the sorted target zones of available_timezones(), which
\* the host's tz database decides
TzLists == { << <<"Europe", "Dublin">> >>,
             << <<"America", "Argentina", "Salta">>,
                <<"America", "Chicago">>,
                <<"UTC">> >> }

Workers == 1..Len(tznames)

\* years of a run, none a leap year
GenYears == { 2018, 2022, 2023 }

Step(t, m) == [at |-> t, off |-> m]

UTCOracle == [init |-> 0, steps |-> <<>>, noneAt |-> {}]

\* America/Chicago in 2022, by wall-clock time
ChicagoOracle ==
    [init |-> -360,
     steps |-> << Step(Hoy(3, 13, 3), -300), Step(Hoy(11, 6, 2), -360) >>,
     noneAt |-> {}]

\* the same with no offset inside the spring-forward gap
ChicagoGapOracle == [ChicagoOracle EXCEPT !.noneAt = { Hoy(3, 13, 2) }]

OracleMins == { -180, 330, 345 }
StepTimes == { Hoy(3, 13, 3), Hoy(10, 31, 0), 0 - 4 * 24, HoursPerYear + 24 }

RECURSIVE StepSeqs(_)
StepSeqs(n) ==
    IF n = 0 THEN { <<>> }
    ELSE LET shorter == StepSeqs(n - 1)
         IN  shorter \cup
             { Append(s, Step(t, m)) :
                 s \in { x \in shorter : Len(x) = n - 1 },
                 t \in StepTimes, m \in OracleMins }

\* step functions: the steps ascend in time
GenOracles ==
    { [init |-> m, steps |-> s, noneAt |-> {}] :
        m \in OracleMins,
        s \in { x \in StepSeqs(MaxOracleSteps) :
                  \A i, j \in 1..Len(x) : i < j => x[i].at < x[j].at } }

\* no offset at January 1st 00:00; no offset on December 31st of the year
\* before, a date only the padding of January's first week can reach
DublinJan1GapOracle == [init |-> 0, steps |-> <<>>, noneAt |-> { 0 }]
DublinPaddingGapOracle == [init |-> 0, steps |-> <<>>, noneAt |-> { 0 - 24 }]

SaltaOracle == [init |-> -180, steps |-> <<>>, noneAt |-> {}]

\* ZoneInfo.no_cache(tz_name)
OraclesOf(parts) ==
    IF parts = <<"UTC">> THEN { UTCOracle }
    ELSE IF parts = <<"America", "Chicago">>
         THEN { ChicagoOracle, ChicagoGapOracle }
    ELSE IF parts = <<"America", "Argentina", "Salta">> THEN { SaltaOracle }
    ELSE GenOracles \cup { DublinJan1GapOracle, DublinPaddingGapOracle }

\* lines 110-117
lib_dir(parts) == SubSeq(parts, 1, Len(parts) - 1)
tz_file(parts) == [dir |-> lib_dir(parts), file |-> parts[Len(parts)], ext |-> ".py"]
init_py(dir) == [dir |-> dir, file |-> "__init__", ext |-> ".py"]

\* Path.mkdir(): the parent must exist
path_mkdir(dirs, p) ==
    IF SubSeq(p, 1, Len(p) - 1) \in dirs
    THEN [ok |-> TRUE, dirs |-> dirs \cup { p }]
    ELSE [ok |-> FALSE, dirs |-> dirs]

---------------------------------------------------------------------------
(* Extractor actions: one worker of the pool runs serialize_timezone *)

\* lines 86-108: local to the worker
Scan(w) ==
    /\ wpc[w] = "start"
    /\ LET st == serialize_scan(year, oracle[w])
       IN  /\ utc_offset_dict' = [utc_offset_dict EXCEPT ![w] = st.dict]
           /\ werr' = [werr EXCEPT ![w] = st.err]
           /\ wpc' = [wpc EXCEPT ![w] = IF st.err = "" THEN "scanned" ELSE "failed"]
    /\ UNCHANGED <<tznames, year, oracle, fsDirs, fsFiles>>
    /\ UNCHANGED resolverVars

\* lines 110-122: one step, taken under PROC_LOCK
Mkdir(w) ==
    /\ wpc[w] = "scanned"
    /\ LET d == lib_dir(tznames[w])
           r == path_mkdir(fsDirs, d)
       IN  IF d \in fsDirs
           THEN /\ wpc' = [wpc EXCEPT ![w] = "dir"]
                /\ UNCHANGED <<werr, fsDirs, fsFiles>>
           ELSE IF r.ok
           THEN /\ wpc' = [wpc EXCEPT ![w] = "dir"]
                /\ fsDirs' = r.dirs
                /\ fsFiles' = (init_py(d) :> <<>>) @@ fsFiles
                /\ UNCHANGED werr
           ELSE /\ wpc' = [wpc EXCEPT ![w] = "failed"]
                /\ werr' = [werr EXCEPT ![w] = "FileNotFoundError"]
                /\ UNCHANGED <<fsDirs, fsFiles>>
    /\ UNCHANGED <<tznames, year, oracle, utc_offset_dict>>
    /\ UNCHANGED resolverVars

\* lines 124-126
Write(w) ==
    /\ wpc[w] = "dir"
    /\ fsFiles' = (tz_file(tznames[w]) :> utc_offset_dict[w]) @@ fsFiles
    /\ wpc' = [wpc EXCEPT ![w] = "done"]
    /\ UNCHANGED <<tznames, year, oracle, werr, utc_offset_dict, fsDirs>>
    /\ UNCHANGED resolverVars

ResolverIdle ==
    /\ dbFile = EmptyDB
    /\ TZ_DB = NoneDB
    /\ gcEnabled = TRUE
    /\ pc = "idle"
    /\ cur = NoCur
    /\ handles = <<>>
    /\ loadCalls = 0
    /\ last = Result("none", "ok", 0, "", NoDT, NoDT, 0, NoDT, 0)

\* lines 133-156: out_pkg is made afresh and every zone is submitted
InitGen ==
    /\ tznames \in TzLists
    /\ year \in GenYears
    /\ oracle \in [Workers -> UNION { OraclesOf(tznames[w]) : w \in Workers }]
    /\ \A w \in Workers : oracle[w] \in OraclesOf(tznames[w])
    /\ wpc = [w \in Workers |-> "start"]
    /\ werr = [w \in Workers |-> ""]
    /\ utc_offset_dict = [w \in Workers |-> <<>>]
    /\ fsDirs = { <<>> }
    /\ fsFiles = (init_py(<<>>) :> <<>>)
    /\ ResolverIdle

NextGen ==
    \/ \E w \in Workers : Scan(w)
    \/ \E w \in Workers : Mkdir(w)
    \/ \E w \in Workers : Write(w)

SpecGen == InitGen /\ [][NextGen]_vars

---------------------------------------------------------------------------
(* Properties of the resolver *)

\* the transitions of table t whose re-anchored timestamp is <= dt
Matches(t, dt) == { i \in 1..Len(t) : GE(dt, Replace(t[i].ts, dt.year)) }

Max(S) == CHOOSE x \in S : \A y \in S : y <= x

\* the step function of claim C1, zero where no transition matches
StepOffset(t, dt) == IF Matches(t, dt) = {} THEN 0 ELSE t[Max(Matches(t, dt))].off

Ascending(t) == \A i, j \in 1..Len(t) : i < j => LT(t[i].ts, t[j].ts)

SameItems(a, b) ==
    Len(a) = Len(b) /\ { a[i] : i \in 1..Len(a) } = { b[i] : i \in 1..Len(b) }

LastTable == handles[last.h].tz_data

\* C1: every handle's table is the zone's dict in ascending order of its
\* timestamps, and utcoffset(dt) returns the offset of the last transition
\* of that order whose timestamp, with its year replaced by dt.year, is
\* <= dt; for the America/Chicago table that is -5 on July 4th and -6 on
\* January 10th and December 25th.
C1_LastMatchingTransition ==
    /\ \A h \in 1..Len(handles) :
          /\ Ascending(handles[h].tz_data)
          /\ SameItems(handles[h].tz_data, TZ_DB.dict[handles[h].name])
    /\ last.op = "utcoffset" =>
          /\ Matches(LastTable, last.dt) # {} =>
                last.off = LastTable[Max(Matches(LastTable, last.dt))].off
          /\ last.name = "America/Chicago" =>
                /\ last.dt.hoy = Hoy(7, 4, 0) => last.off = -5
                /\ last.dt.hoy = Hoy(1, 10, 0) => last.off = -6
                /\ last.dt.hoy = Hoy(12, 25, 0) => last.off = -6

\* C1 witness: a query that several transitions match, answered by the last
\* of them and not by the first
C1_Witness ==
    /\ last.op = "utcoffset"
    /\ Cardinality(Matches(LastTable, last.dt)) >= 2
    /\ last.off = LastTable[Max(Matches(LastTable, last.dt))].off
    /\ last.off # LastTable[1].off

\* C2 as stated: tzname(dt) returns a name exactly when dt.tzinfo is the
\* very timezone object it is called on, and raises for every other tzinfo,
\* a timezone object of another zone included.
C2_Original ==
    last.op = "tzname" =>
        /\ last.status = "ok" <=> last.tzi = last.h
        /\ last.status = "ok" => last.name = handles[last.h].name

\* C2 amended: tzname(dt) raises ValueError exactly when dt.tzinfo is not an
\* instance of the timezone class; for every timezone object, of this zone
\* or of another, it returns the name of dt.tzinfo, which is this zone's
\* name when dt.tzinfo is this same object.
C2_Amended ==
    last.op = "tzname" =>
        /\ last.status = "ok" <=> last.tzi \in 1..Len(handles)
        /\ last.status # "ok" => last.status = "ValueError"
        /\ last.status = "ok" => last.name = handles[last.tzi].name
        /\ last.tzi = last.h => last.name = handles[last.h].name

\* C2 witness: tzname called with the timezone object of another zone
C2_Witness ==
    /\ last.op = "tzname"
    /\ last.tzi \in 1..Len(handles)
    /\ last.tzi # last.h
    /\ handles[last.tzi].name # handles[last.h].name
    /\ last.status = "ok"

\* C3 as stated: when dt precedes the re-anchored timestamp of every
\* transition of a table, utcoffset(dt) returns the first transition's
\* offset.
C3_Original ==
    (last.op = "utcoffset" /\ LastTable # <<>> /\ Matches(LastTable, last.dt) = {})
        => last.off = LastTable[1].off

\* C3 amended: when dt precedes the re-anchored timestamp of every
\* transition of the table, utcoffset(dt) returns the zero offset; a table
\* with a transition at January 1st 00:00 has no such dt.
C3_Amended ==
    last.op = "utcoffset" =>
        /\ Matches(LastTable, last.dt) = {} => last.off = 0
        /\ (\E i \in 1..Len(LastTable) : LastTable[i].ts.hoy = 0)
              => /\ Matches(LastTable, last.dt) # {}
                 /\ \E i \in Matches(LastTable, last.dt) : last.off = LastTable[i].off

\* C3 witness: a query before every transition of a table that has some
C3_Witness ==
    /\ last.op = "utcoffset"
    /\ LastTable # <<>>
    /\ Matches(LastTable, last.dt) = {}

\* a step that completes a construction timezone(last'.name)
InitCompletes ==
    /\ pc' = "idle"
    /\ last'.op = "init"
    /\ \/ pc = "after_load"
       \/ pc = "idle" /\ <<handles', last'>> # <<handles, last>>

\* C4: a construction that ends with the registry loaded fails with KeyError
\* and adds no handle when the name is absent from the registry, leaving a
\* registry loaded before unchanged; it succeeds with a new handle of that
\* name when the name is present.
C4_UnknownTimezone ==
    [][ (InitCompletes /\ ~TZ_DB'.isNone) =>
          /\ last'.name \notin DOMAIN TZ_DB'.dict =>
                /\ last'.status = "KeyError"
                /\ handles' = handles
                /\ ~TZ_DB.isNone => TZ_DB' = TZ_DB
          /\ last'.name \in DOMAIN TZ_DB'.dict =>
                /\ last'.status = "ok"
                /\ Len(handles') = Len(handles) + 1
                /\ SubSeq(handles', 1, Len(handles)) = handles
                /\ handles'[Len(handles')].name = last'.name ]_vars

\* C4 witness: an unknown name was refused after a handle was built, with
\* the registry loaded
C4_Witness ==
    /\ last.op = "init"
    /\ last.status = "KeyError"
    /\ last.name = "Mars/Phobos"
    /\ ~TZ_DB.isNone
    /\ Len(handles) >= 1

\* C5 as stated: _load_db runs on the first construction only.
C5_Original == loadCalls <= 1

\* C5 amended: _load_db is called only by a construction that finds the
\* registry unloaded, so again after a load that failed; the registry is
\* loaded with the file's content, and once it is loaded no construction
\* calls _load_db and its content never changes.
C5_Amended ==
    [][ /\ loadCalls' # loadCalls => TZ_DB.isNone
        /\ ~TZ_DB.isNone => (TZ_DB' = TZ_DB /\ loadCalls' = loadCalls)
        /\ (TZ_DB.isNone /\ ~TZ_DB'.isNone) => TZ_DB'.dict = dbFile ]_vars

\* C5 witness: the registry is loaded by the second call of _load_db, and
\* constructions have completed since
C5_Witness ==
    /\ ~TZ_DB.isNone
    /\ loadCalls = 2
    /\ Len(handles) = 2

\* C6: gc is disabled only inside _load_db; when _load_db has returned or
\* raised, gc is enabled again, and after a load that failed the registry
\* is still unloaded.
C6_GcRestored ==
    /\ ~gcEnabled => pc \in { "open", "finally" }
    /\ pc \in { "idle", "after_load" } => gcEnabled
    /\ (pc = "after_load" /\ cur.pending # "ok") => TZ_DB.isNone
    /\ (last.op = "init" /\ last.status \in { "OSError", "ValueError" })
          => TZ_DB.isNone

\* C6 witness: _load_db has raised and the error is about to leave __init__
C6_Witness ==
    /\ pc = "after_load"
    /\ cur.pending \in { "OSError", "ValueError" }
    /\ gcEnabled

\* C7: fromutc(dt) is dt plus the zone's offset at the wall-clock reading,
\* not at dt.
C7_FromUtcUsesNow ==
    last.op = "fromutc" =>
        last.out = Plus(last.dt, StepOffset(LastTable, last.now))

\* C7 witness: a conversion of a dt whose own offset differs from the
\* offset at the wall-clock reading
C7_Witness ==
    /\ last.op = "fromutc"
    /\ StepOffset(LastTable, last.dt) # StepOffset(LastTable, last.now)
    /\ last.out = Plus(last.dt, StepOffset(LastTable, last.now))

---------------------------------------------------------------------------
(* Properties of the extractor *)

Scanned(w) == wpc[w] \in { "scanned", "dir", "done" } \/ werr[w] = "FileNotFoundError"

\* C8 as stated: the table a worker emits is non-empty, begins with the
\* January 1st 00:00 offset, ascends strictly by timestamp within the run's
\* year, and ordered by timestamp has no two adjacent equal offsets.
C8_Original ==
    \A w \in Workers :
        Scanned(w) =>
            LET d == utc_offset_dict[w]
                o == sorted_kv_pairs(d)
            IN  /\ d # <<>>
                /\ d[1] = Item(Naive(year, 0), Hours(OracleOffset(oracle[w], 0).mins))
                /\ Ascending(d)
                /\ \A i \in 1..Len(d) : d[i].ts.year = year
                /\ \A i \in 1..(Len(d) - 1) : o[i].off # o[i + 1].off

\* the instants at which the loop of line 99 samples in year y
InScan(y, t) ==
    /\ \E i \in 1..Len(ScanHours) : t % 24 = ScanHours[i]
    /\ \E month \in 1..12 :
          /\ itermonthdates(y, month).lo <= t \div 24
          /\ t \div 24 <= itermonthdates(y, month).hi

\* C9 as stated: an instant of the scan without an offset is skipped and
\* the zone's run goes on.
C9_Original ==
    \A w \in Workers :
        0 \notin oracle[w].noneAt => werr[w] # "ValueError"

\* C9 amended: when the oracle yields None at January 1st 00:00 or at a
\* sampled instant, serialize_timezone raises ValueError there: the zone's
\* run ends and no table is written for it; otherwise the scan completes.
C9_Amended ==
    \A w \in Workers :
        wpc[w] # "start" =>
            /\ werr[w] = "ValueError" <=>
                  \E t \in oracle[w].noneAt : t = 0 \/ InScan(year, t)
            /\ werr[w] = "ValueError" =>
                  /\ wpc[w] = "failed"
                  /\ tz_file(tznames[w]) \notin DOMAIN fsFiles

\* C9 witness: a run ended by an instant of the scan without an offset
C9_Witness ==
    \E w \in Workers :
        /\ wpc[w] = "failed"
        /\ werr[w] = "ValueError"
        /\ 0 \notin oracle[w].noneAt

\* C10 as stated: whatever the order in which the workers run, every worker
\* that has its table makes its directory and writes its file.
C10_Original ==
    \A w \in Workers : werr[w] # "FileNotFoundError"

===========================================================================
